---- MODULE Spec2Model ----
(***************************************************************************)
(* Model of the Loki query builder options panel                           *)
(* (public/app/plugins/datasource/loki/querybuilder/components/            *)
(* LokiQueryBuilderOptions.tsx).                                           *)
(*                                                                         *)
(* Conventions.                                                            *)
(*  - A JavaScript string is a sequence of one-character strings, so that  *)
(*    trimming, parsing, template interpolation and prefix tests are       *)
(*    computed and not assumed.                                            *)
(*  - An optional value is a sequence of length at most one: None is the   *)
(*    absent (undefined) value, Some(v) a present one.                     *)
(*  - A commit of a field runs the whole event handler in one step and     *)
(*    leaves the calls it made to its collaborators in `calls`; the owner  *)
(*    of the query then applies the update and re-renders the panel.       *)
(***************************************************************************)
EXTENDS Integers, Sequences, FiniteSets, TLC

VARIABLES query, app, maxLines, featureToggles, splitDurationValid, calls, evt, lastSplit, pc

vars == <<query, app, maxLines, featureToggles, splitDurationValid, calls, evt, lastSplit, pc>>

props == <<app, maxLines, featureToggles>>

None == <<>>

Some(v) == <<v>>

\* Largest number whose decimal text is offered to the line-limit input.
MaxLineLimit == 1

(***************************************************************************)
(* Strings                                                                 *)
(***************************************************************************)
Digits == <<"0", "1", "2", "3", "4", "5", "6", "7", "8", "9">>

IsDigit(c) == \E i \in 1..10 : Digits[i] = c

DigitVal(c) == (CHOOSE i \in 1..10 : Digits[i] = c) - 1

IsSpace(c) == c = " "

RECURSIVE NumToStr(_)
\* Template interpolation of a non-negative number: its decimal digits.
NumToStr(n) == IF n < 10 THEN <<Digits[n + 1]>> ELSE NumToStr(n \div 10) \o <<Digits[(n % 10) + 1]>>

S_undefined == <<"u", "n", "d", "e", "f", "i", "n", "e", "d">>

S_Legend == <<"L", "e", "g", "e", "n", "d", ":", " ">>

S_Resolution == <<"R", "e", "s", "o", "l", "u", "t", "i", "o", "n", ":", " ">>

S_Type == <<"T", "y", "p", "e", ":", " ">>

S_LineLimit == <<"L", "i", "n", "e", " ", "l", "i", "m", "i", "t", ":", " ">>

S_Step == <<"S", "t", "e", "p", ":", " ">>

StartsWith(s, p) == Len(s) >= Len(p) /\ SubSeq(s, 1, Len(p)) = p

RECURSIVE TrimStart(_)
TrimStart(s) == IF s # <<>> /\ IsSpace(Head(s)) THEN TrimStart(Tail(s)) ELSE s

RECURSIVE TrimEnd(_)
TrimEnd(s) == IF s # <<>> /\ IsSpace(s[Len(s)]) THEN TrimEnd(SubSeq(s, 1, Len(s) - 1)) ELSE s

\* lodash trim: leading and trailing whitespace removed.
trim(s) == TrimEnd(TrimStart(s))

RECURSIVE DigitPrefixVal(_, _)
\* Value of the longest prefix of digits of s, acc being the value so far.
DigitPrefixVal(s, acc) == IF s # <<>> /\ IsDigit(Head(s)) THEN DigitPrefixVal(Tail(s), 10 * acc + DigitVal(Head(s))) ELSE acc

\* parseInt(value, 10): None stands for NaN.
parseInt(s) ==
  LET t == TrimStart(s)
      neg == t # <<>> /\ Head(t) = "-"
      u == IF t # <<>> /\ Head(t) \in {"-", "+"} THEN Tail(t) ELSE t
  IN IF u = <<>> \/ ~IsDigit(Head(u)) THEN None
     ELSE Some(IF neg THEN 0 - DigitPrefixVal(u, 0) ELSE DigitPrefixVal(u, 0))

\* preprocessMaxLines: the parsed number, undefined when NaN or negative.
preprocessMaxLines(value) ==
  LET n == parseInt(value)
  IN IF n = None \/ n[1] < 0 THEN None ELSE n

DurationUnits == {"s", "m", "h", "d", "w", "M", "y"}

\* isValidDuration: digits followed by a known unit.
isValidDuration(value) ==
  LET t == trim(value)
  IN /\ Len(t) >= 2
     /\ \A i \in 1..(Len(t) - 1) : IsDigit(t[i])
     /\ t[Len(t)] \in DurationUnits

(***************************************************************************)
(* Catalogs and classification                                             *)
(***************************************************************************)
\* queryTypeOptions: (value, label) pairs.
queryTypeOptions ==
  << [value |-> "range", label |-> <<"R", "a", "n", "g", "e">>],
     [value |-> "instant", label |-> <<"I", "n", "s", "t", "a", "n", "t">>] >>

ResolutionValues == <<1, 2, 3, 4, 5, 10>>

\* RESOLUTION_OPTIONS: value n labelled "1/n".
RESOLUTION_OPTIONS == [i \in 1..Len(ResolutionValues) |-> [value |-> ResolutionValues[i], label |-> <<"1", "/">> \o NumToStr(ResolutionValues[i])]]

LogExpr == "{job=\"a\"}"

MetricExpr == "rate({job=\"a\"}[5m])"

\* isLogsQuery: classification of the expression text.
isLogsQuery(expr) == expr = LogExpr

\* Array.prototype.find: the first matching element, None when there is none.
Find(opts, v) ==
  LET hits == {i \in DOMAIN opts : opts[i].value = v}
  IN IF hits = {} THEN None ELSE Some(opts[CHOOSE i \in hits : \A j \in hits : i <= j])

\* `${x?.label}`: the label, or the text "undefined".
LabelText(found) == IF found = None THEN S_undefined ELSE found[1].label

\* JavaScript truthiness of an optional string or number.
TruthyStr(o) == o # None /\ o[1] # <<>>

TruthyNum(o) == o # None /\ o[1] # 0

Fields == {"legendFormat", "queryType", "instant", "maxLines", "step", "resolution", "splitDuration", "expr"}

(***************************************************************************)
(* Rendering                                                               *)
(***************************************************************************)
\* Variant: the legacy instant flag wins over the explicit type.
queryType_InstantFirst == IF query.instant = Some(TRUE) THEN "instant" ELSE IF query.queryType # None THEN query.queryType[1] ELSE "range"

\* query.queryType ?? (query.instant ? Instant : Range)
queryType == IF query.queryType # None THEN query.queryType[1] ELSE IF query.instant = Some(TRUE) THEN "instant" ELSE "range"

isLogQuery == isLogsQuery(query.expr)

\* Variant: the type entry is pushed first.
getCollapsedInfo_TypeFirst(q, qType, maxLn, isLog) ==
  LET queryTypeLabel == Find(queryTypeOptions, qType)
      resolutionLabel == Find(RESOLUTION_OPTIONS, IF q.resolution # None THEN q.resolution[1] ELSE 1)
      legend == IF TruthyStr(q.legendFormat) THEN <<S_Legend \o q.legendFormat[1]>> ELSE <<>>
      resolution == IF TruthyNum(q.resolution) THEN <<S_Resolution \o LabelText(resolutionLabel)>> ELSE <<>>
      type == <<S_Type \o LabelText(queryTypeLabel)>>
      lineLimit == IF isLog THEN <<S_LineLimit \o NumToStr(IF q.maxLines # None THEN q.maxLines[1] ELSE maxLn)>> ELSE <<>>
      step == IF ~isLog /\ TruthyStr(q.step) THEN <<S_Step \o q.step[1]>> ELSE <<>>
      resolutionAgain == IF ~isLog /\ TruthyNum(q.resolution) THEN <<S_Resolution \o LabelText(resolutionLabel)>> ELSE <<>>
  IN type \o legend \o resolution \o lineLimit \o step \o resolutionAgain

\* Variant: the resolution entry is pushed once only.
getCollapsedInfo_NoDuplicate(q, qType, maxLn, isLog) ==
  LET queryTypeLabel == Find(queryTypeOptions, qType)
      resolutionLabel == Find(RESOLUTION_OPTIONS, IF q.resolution # None THEN q.resolution[1] ELSE 1)
      legend == IF TruthyStr(q.legendFormat) THEN <<S_Legend \o q.legendFormat[1]>> ELSE <<>>
      resolution == IF TruthyNum(q.resolution) THEN <<S_Resolution \o LabelText(resolutionLabel)>> ELSE <<>>
      type == <<S_Type \o LabelText(queryTypeLabel)>>
      lineLimit == IF isLog THEN <<S_LineLimit \o NumToStr(IF q.maxLines # None THEN q.maxLines[1] ELSE maxLn)>> ELSE <<>>
      step == IF ~isLog /\ TruthyStr(q.step) THEN <<S_Step \o q.step[1]>> ELSE <<>>
  IN legend \o resolution \o type \o lineLimit \o step

\* Variant: the resolution entries are guarded by (query.resolution ?? 1).
getCollapsedInfo_DefaultShown(q, qType, maxLn, isLog) ==
  LET queryTypeLabel == Find(queryTypeOptions, qType)
      resolutionLabel == Find(RESOLUTION_OPTIONS, IF q.resolution # None THEN q.resolution[1] ELSE 1)
      shown == TruthyNum(IF q.resolution # None THEN q.resolution ELSE Some(1))
      legend == IF TruthyStr(q.legendFormat) THEN <<S_Legend \o q.legendFormat[1]>> ELSE <<>>
      resolution == IF shown THEN <<S_Resolution \o LabelText(resolutionLabel)>> ELSE <<>>
      type == <<S_Type \o LabelText(queryTypeLabel)>>
      lineLimit == IF isLog THEN <<S_LineLimit \o NumToStr(IF q.maxLines # None THEN q.maxLines[1] ELSE maxLn)>> ELSE <<>>
      step == IF ~isLog /\ TruthyStr(q.step) THEN <<S_Step \o q.step[1]>> ELSE <<>>
      resolutionAgain == IF ~isLog /\ shown THEN <<S_Resolution \o LabelText(resolutionLabel)>> ELSE <<>>
  IN legend \o resolution \o type \o lineLimit \o step \o resolutionAgain

\* The summary of the collapsed panel: the entries in the order they are pushed.
getCollapsedInfo(q, qType, maxLn, isLog) ==
  LET queryTypeLabel == Find(queryTypeOptions, qType)
      resolutionLabel == Find(RESOLUTION_OPTIONS, IF q.resolution # None THEN q.resolution[1] ELSE 1)
      legend == IF TruthyStr(q.legendFormat) THEN <<S_Legend \o q.legendFormat[1]>> ELSE <<>>
      resolution == IF TruthyNum(q.resolution) THEN <<S_Resolution \o LabelText(resolutionLabel)>> ELSE <<>>
      type == <<S_Type \o LabelText(queryTypeLabel)>>
      lineLimit == IF isLog THEN <<S_LineLimit \o NumToStr(IF q.maxLines # None THEN q.maxLines[1] ELSE maxLn)>> ELSE <<>>
      step == IF ~isLog /\ TruthyStr(q.step) THEN <<S_Step \o q.step[1]>> ELSE <<>>
      resolutionAgain == IF ~isLog /\ TruthyNum(q.resolution) THEN <<S_Resolution \o LabelText(resolutionLabel)>> ELSE <<>>
  IN legend \o resolution \o type \o lineLimit \o step \o resolutionAgain

collapsedInfo == getCollapsedInfo(query, queryType, maxLines, isLogQuery)

\* Variant: one enabled feature flag is enough for the split-duration field.
VisibleFields_EitherFlag ==
  {"legendFormat", "queryType"}
    \cup (IF isLogQuery THEN {"maxLines"} ELSE {})
    \cup (IF ~isLogQuery THEN {"step", "resolution"} ELSE {})
    \cup (IF featureToggles.lokiQuerySplittingConfig = Some(TRUE) \/ featureToggles.lokiQuerySplitting = Some(TRUE) THEN {"splitDuration"} ELSE {})

\* The editor fields the panel renders.
VisibleFields ==
  {"legendFormat", "queryType"}
    \cup (IF isLogQuery THEN {"maxLines"} ELSE {})
    \cup (IF ~isLogQuery THEN {"step", "resolution"} ELSE {})
    \cup (IF featureToggles.lokiQuerySplittingConfig = Some(TRUE) /\ featureToggles.lokiQuerySplitting = Some(TRUE) THEN {"splitDuration"} ELSE {})

\* invalid={!splitDurationValid} on the split-duration input.
SplitDurationMarkedInvalid == ~splitDurationValid

(***************************************************************************)
(* Calls made to the collaborators                                         *)
(***************************************************************************)
OnChange(update) == [fn |-> "onChange", arg |-> update]

OnRunQuery == [fn |-> "onRunQuery", arg |-> None]

ReportInteraction(name, properties) == [fn |-> "reportInteraction", arg |-> [name |-> name, properties |-> properties]]

\* What a commit records besides the handler's own effects: the event, and
\* the text of the latest split-duration commit.
Committed(field, value) ==
  /\ evt' = [field |-> field, value |-> value]
  /\ lastSplit' = IF field = "splitDuration" THEN Some(value) ELSE lastSplit
  /\ pc' = "committed"
  /\ UNCHANGED <<query, props>>

CanCommit(field) == pc = "idle" /\ field \in VisibleFields

(***************************************************************************)
(* Event handlers                                                          *)
(***************************************************************************)
onQueryTypeChange(value) ==
  /\ CanCommit("queryType")
  /\ calls' = <<OnChange([query EXCEPT !.queryType = Some(value)]), OnRunQuery>>
  /\ UNCHANGED splitDurationValid
  /\ Committed("queryType", value)

\* Variant: the telemetry report is made last.
onResolutionChange_ReportLast(value) ==
  /\ CanCommit("resolution")
  /\ calls' = << OnChange([query EXCEPT !.resolution = Some(value)]),
                 OnRunQuery,
                 ReportInteraction("grafana_loki_resolution_clicked", [app |-> app, resolution |-> value]) >>
  /\ UNCHANGED splitDurationValid
  /\ Committed("resolution", value)

onResolutionChange(value) ==
  /\ CanCommit("resolution")
  /\ calls' = << ReportInteraction("grafana_loki_resolution_clicked", [app |-> app, resolution |-> value]),
                 OnChange([query EXCEPT !.resolution = Some(value)]),
                 OnRunQuery >>
  /\ UNCHANGED splitDurationValid
  /\ Committed("resolution", value)

\* Variant: the invalid branch does not return.
onChunkRangeChange_NoReturn(value) ==
  /\ CanCommit("splitDuration")
  /\ splitDurationValid' = isValidDuration(value)
  /\ calls' = <<OnChange([query EXCEPT !.splitDuration = Some(value)]), OnRunQuery>>
  /\ Committed("splitDuration", value)

\* Variant: a valid commit does not clear the flag.
onChunkRangeChange_NeverCleared(value) ==
  /\ CanCommit("splitDuration")
  /\ IF ~isValidDuration(value)
       THEN /\ splitDurationValid' = FALSE
            /\ calls' = <<>>
       ELSE /\ UNCHANGED splitDurationValid
            /\ calls' = <<OnChange([query EXCEPT !.splitDuration = Some(value)]), OnRunQuery>>
  /\ Committed("splitDuration", value)

onChunkRangeChange(value) ==
  /\ CanCommit("splitDuration")
  /\ IF ~isValidDuration(value)
       THEN /\ splitDurationValid' = FALSE
            /\ calls' = <<>>
       ELSE /\ splitDurationValid' = TRUE
            /\ calls' = <<OnChange([query EXCEPT !.splitDuration = Some(value)]), OnRunQuery>>
  /\ Committed("splitDuration", value)

\* Variant: the update is built without the other fields' values.
onLegendFormatChanged_NoSpread(value) ==
  /\ CanCommit("legendFormat")
  /\ calls' = <<OnChange([query EXCEPT !.legendFormat = Some(value), !.queryType = None, !.resolution = None]), OnRunQuery>>
  /\ UNCHANGED splitDurationValid
  /\ Committed("legendFormat", value)

onLegendFormatChanged(value) ==
  /\ CanCommit("legendFormat")
  /\ calls' = <<OnChange([query EXCEPT !.legendFormat = Some(value)]), OnRunQuery>>
  /\ UNCHANGED splitDurationValid
  /\ Committed("legendFormat", value)

onMaxLinesChange(value) ==
  /\ CanCommit("maxLines")
  /\ LET newMaxLines == preprocessMaxLines(value)
     IN IF query.maxLines # newMaxLines
          THEN calls' = <<OnChange([query EXCEPT !.maxLines = newMaxLines]), OnRunQuery>>
          ELSE calls' = <<>>
  /\ UNCHANGED splitDurationValid
  /\ Committed("maxLines", value)

\* Variant: the step propagates only when it differs from the query's.
onStepChange_OnlyWhenChanged(value) ==
  /\ CanCommit("step")
  /\ IF query.step # Some(trim(value))
       THEN calls' = <<OnChange([query EXCEPT !.step = Some(trim(value))]), OnRunQuery>>
       ELSE calls' = <<>>
  /\ UNCHANGED splitDurationValid
  /\ Committed("step", value)

onStepChange(value) ==
  /\ CanCommit("step")
  /\ calls' = <<OnChange([query EXCEPT !.step = Some(trim(value))]), OnRunQuery>>
  /\ UNCHANGED splitDurationValid
  /\ Committed("step", value)

\* The owner of the query: it stores the last update it was handed and
\* re-renders the panel with it.
OwnerApplies ==
  /\ pc = "committed"
  /\ LET ups == {i \in DOMAIN calls : calls[i].fn = "onChange"}
     IN query' = IF ups = {} THEN query ELSE calls[CHOOSE i \in ups : \A j \in ups : j <= i].arg
  /\ calls' = <<>>
  /\ evt' = [field |-> "none", value |-> None]
  /\ pc' = "idle"
  /\ UNCHANGED <<props, splitDurationValid, lastSplit>>

(***************************************************************************)
(* Inputs                                                                  *)
(***************************************************************************)
LegendInputs == {<<>>, <<"{", "{", "a", "}", "}">>}

QueryTypeInputs == {"range", "instant"}

MaxLinesInputs == {<<>>, <<"-", "1">>} \cup {NumToStr(n) : n \in 0..MaxLineLimit}

StepInputs == {<<>>, <<" ", "5", "m", " ">>}

ResolutionInputs == {RESOLUTION_OPTIONS[i].value : i \in DOMAIN RESOLUTION_OPTIONS}

SplitDurationInputs == {<<"2", "d">>, <<"1", "0", "m">>, <<"x">>}

OptBool == {None, Some(TRUE), Some(FALSE)}

Init ==
  /\ query \in [legendFormat : {None}, queryType : {None}, instant : OptBool, maxLines : {None}, step : {None},
                resolution : {None, Some(0), Some(2), Some(7)}, splitDuration : {None}, expr : {LogExpr, MetricExpr}]
  /\ app \in {None, Some("explore")}
  /\ maxLines = 10
  /\ featureToggles \in [lokiQuerySplittingConfig : OptBool, lokiQuerySplitting : {Some(TRUE), Some(FALSE)}]
  /\ splitDurationValid = TRUE
  /\ calls = <<>>
  /\ evt = [field |-> "none", value |-> None]
  /\ lastSplit = None
  /\ pc = "idle"

Next ==
  \/ \E v \in QueryTypeInputs : onQueryTypeChange(v)
  \/ \E v \in ResolutionInputs : onResolutionChange(v)
  \/ \E v \in SplitDurationInputs : onChunkRangeChange(v)
  \/ \E v \in LegendInputs : onLegendFormatChanged(v)
  \/ \E v \in MaxLinesInputs : onMaxLinesChange(v)
  \/ \E v \in StepInputs : onStepChange(v)
  \/ OwnerApplies

Spec == Init /\ [][Next]_vars

(***************************************************************************)
(* Properties                                                              *)
(***************************************************************************)
CallCount(fn) == Cardinality({i \in DOMAIN calls : calls[i].fn = fn})

CommittedField(field) == pc = "committed" /\ evt.field = field

\* One onChange followed by one onRunQuery, and no other of either.
ChangeThenRun ==
  /\ CallCount("onChange") = 1
  /\ CallCount("onRunQuery") = 1
  /\ \E i, j \in DOMAIN calls : i < j /\ calls[i].fn = "onChange" /\ calls[j].fn = "onRunQuery"

TheUpdate == calls[CHOOSE i \in DOMAIN calls : calls[i].fn = "onChange"].arg

\* C1: a split-duration commit of an invalid duration calls neither onChange
\* nor onRunQuery; a commit of a valid duration calls onChange once with the
\* query whose splitDuration is the committed text and then onRunQuery once.
C1_SplitDurationCommit ==
  CommittedField("splitDuration") =>
    IF ~isValidDuration(evt.value)
      THEN CallCount("onChange") = 0 /\ CallCount("onRunQuery") = 0
      ELSE ChangeThenRun /\ TheUpdate.splitDuration = Some(evt.value)

C1_Witness == CommittedField("splitDuration") /\ ~isValidDuration(evt.value) /\ query.splitDuration = Some(<<"2", "d">>)

\* C2: the resolved query type is the explicit queryType when it is set,
\* otherwise Instant when instant is true, otherwise Range.
C2_ResolvedQueryType ==
  /\ query.queryType # None => queryType = query.queryType[1]
  /\ query.queryType = None /\ query.instant = Some(TRUE) => queryType = "instant"
  /\ query.queryType = None /\ query.instant # Some(TRUE) => queryType = "range"

C2_Witness == query.queryType = Some("range") /\ query.instant = Some(TRUE) /\ pc = "idle"

\* C3: a change of the resolution selector makes exactly three calls in this
\* order: the telemetry report with the selected value and the app context,
\* onChange with the query whose resolution is the selected value, onRunQuery.
C3_ResolutionChangeCalls ==
  CommittedField("resolution") =>
    /\ Len(calls) = 3
    /\ calls[1].fn = "reportInteraction"
    /\ calls[1].arg.properties.resolution = evt.value
    /\ calls[1].arg.properties.app = app
    /\ calls[2].fn = "onChange"
    /\ calls[2].arg.resolution = Some(evt.value)
    /\ calls[3].fn = "onRunQuery"

C3_Witness == CommittedField("resolution") /\ evt.value = 10 /\ app = Some("explore")

EntryKind(e) ==
  IF StartsWith(e, S_Legend) THEN "legend"
  ELSE IF StartsWith(e, S_Resolution) THEN "resolution"
  ELSE IF StartsWith(e, S_Type) THEN "type"
  ELSE IF StartsWith(e, S_LineLimit) THEN "lineLimit"
  ELSE IF StartsWith(e, S_Step) THEN "step"
  ELSE "other"

Kinds(items) == [i \in DOMAIN items |-> EntryKind(items[i])]

RECURSIVE IsSubsequence(_, _)
IsSubsequence(a, b) ==
  IF a = <<>> THEN TRUE
  ELSE IF b = <<>> THEN FALSE
  ELSE IF Head(a) = Head(b) THEN IsSubsequence(Tail(a), Tail(b))
  ELSE IsSubsequence(a, Tail(b))

\* C4: the summary's entries come in the order legend, resolution, type, then
\* line limit (log query) or step, resolution (non-log query); the type entry
\* occurs exactly once; a legend entry occurs exactly when legendFormat is
\* non-empty.
C4_SummaryOrder ==
  LET ks == Kinds(collapsedInfo)
  IN /\ IsSubsequence(ks, IF isLogQuery THEN <<"legend", "resolution", "type", "lineLimit">>
                                        ELSE <<"legend", "resolution", "type", "step", "resolution">>)
     /\ Cardinality({i \in DOMAIN ks : ks[i] = "type"}) = 1
     /\ (\E i \in DOMAIN ks : ks[i] = "legend") <=> (query.legendFormat # None /\ query.legendFormat[1] # <<>>)

C4_Witness == Len(collapsedInfo) = 5 /\ pc = "idle"

CatalogLabel(v) == <<"1", "/">> \o NumToStr(v)

InCatalog(v) == \E i \in DOMAIN RESOLUTION_OPTIONS : RESOLUTION_OPTIONS[i].value = v

\* C5: with the resolution set to a catalog value, the summary holds the
\* entry "Resolution: <label>" twice for a non-log query and once for a log
\* query.
C5_ResolutionOccurrences ==
  (query.resolution # None /\ InCatalog(query.resolution[1])) =>
    Cardinality({i \in DOMAIN collapsedInfo : collapsedInfo[i] = S_Resolution \o CatalogLabel(query.resolution[1])})
      = IF isLogQuery THEN 1 ELSE 2

C5_Witness == query.resolution = Some(10) /\ ~isLogQuery /\ pc = "idle"

HasResolutionEntry == \E i \in DOMAIN collapsedInfo : StartsWith(collapsedInfo[i], SubSeq(S_Resolution, 1, 11))

\* C6 as stated: a query whose resolution is absent or the default 1 has no
\* summary entry beginning with "Resolution:".
C6_NoEntryForDefaultResolution == (query.resolution = None \/ query.resolution = Some(1)) => ~HasResolutionEntry

\* C6: a query whose resolution is absent or 0 has no summary entry beginning
\* with "Resolution:"; a resolution entry occurs only if the resolution is
\* set and non-zero.
C6_NoEntryForUnsetResolution ==
  /\ (query.resolution = None \/ query.resolution = Some(0)) => ~HasResolutionEntry
  /\ HasResolutionEntry => (query.resolution # None /\ query.resolution[1] # 0)

C6_Witness == query.resolution = None /\ ~isLogQuery /\ query.step = Some(<<"5", "m">>) /\ pc = "idle"

OtherFields == {"legendFormat", "queryType", "maxLines", "step", "resolution"}

\* C7 as stated: every commit of legend, query type, line limit, step or
\* resolution calls onChange once and then onRunQuery once.
C7_EveryCommitPropagates == (pc = "committed" /\ evt.field \in OtherFields) => ChangeThenRun

\* C7: every commit of legend, query type, step or resolution calls onChange
\* once and then onRunQuery once, also when the value is the one the query
\* holds; a line-limit commit does so when the preprocessed value differs from
\* the query's maxLines and calls neither otherwise.
C7_CommitPropagates ==
  /\ (pc = "committed" /\ evt.field \in OtherFields \ {"maxLines"}) => ChangeThenRun
  /\ CommittedField("maxLines") =>
       IF preprocessMaxLines(evt.value) # query.maxLines
         THEN ChangeThenRun
         ELSE CallCount("onChange") = 0 /\ CallCount("onRunQuery") = 0

C7_Witness == CommittedField("step") /\ query.step = Some(<<"5", "m">>) /\ trim(evt.value) = <<"5", "m">>

\* C8: a commit leaves the query it was given as it is, and every query it
\* hands to onChange is that query with the edited field replaced and every
\* other field unchanged.
C8_UpdateReplacesOneField ==
  [][(pc = "idle" /\ pc' = "committed") =>
       /\ query' = query
       /\ \A i \in DOMAIN calls' :
            calls'[i].fn = "onChange" =>
              /\ DOMAIN calls'[i].arg = Fields
              /\ \A f \in Fields \ {evt'.field} : calls'[i].arg[f] = query[f]]_vars

C8_Witness ==
  /\ CommittedField("legendFormat")
  /\ CallCount("onChange") = 1
  /\ TheUpdate.legendFormat # query.legendFormat
  /\ query.queryType # None
  /\ query.resolution # None

\* C9: the line-limit field is visible exactly for a log query, the step and
\* resolution fields exactly for a non-log query, and the split-duration
\* field exactly when both feature flags are enabled.
C9_FieldVisibility ==
  /\ "maxLines" \in VisibleFields <=> isLogsQuery(query.expr)
  /\ "step" \in VisibleFields <=> ~isLogsQuery(query.expr)
  /\ "resolution" \in VisibleFields <=> ~isLogsQuery(query.expr)
  /\ ~("maxLines" \in VisibleFields /\ ({"step", "resolution"} \cap VisibleFields) # {})
  /\ "splitDuration" \in VisibleFields <=>
       (featureToggles.lokiQuerySplittingConfig = Some(TRUE) /\ featureToggles.lokiQuerySplitting = Some(TRUE))

C9_Witness ==
  /\ featureToggles.lokiQuerySplittingConfig = Some(TRUE)
  /\ featureToggles.lokiQuerySplitting = Some(FALSE)
  /\ isLogQuery
  /\ "maxLines" \in VisibleFields
  /\ CommittedField("maxLines")

\* C10: the split-duration field is marked invalid exactly when a
\* split-duration commit has occurred and the latest one carried an invalid
\* duration.
C10_InvalidFlag == SplitDurationMarkedInvalid <=> (lastSplit # None /\ ~isValidDuration(lastSplit[1]))

C10_Witness == SplitDurationMarkedInvalid /\ CommittedField("legendFormat") /\ query.splitDuration # None

====
